---- MODULE Spec2Model ----
(***************************************************************************)
(* Model of the jarvis_server custom integration:                          *)
(*   config_flow.py   ConfigFlow.async_step_user                           *)
(*   conversation.py  JarvisServerConversationAgent                        *)
(*                                                                         *)
(* Texts are sequences of one-character strings, so that str.strip and     *)
(* str.rstrip are computed character by character.  The Python value None  *)
(* is the string "None" wherever an identifier or an exception is          *)
(* optional.  One call of _async_handle_message is followed from the call  *)
(* to the returned result; chat_log and posts hold what that call appended *)
(* to the ChatLog it was given and the requests it issued.                 *)
(***************************************************************************)
EXTENDS Integers, Sequences, FiniteSets, TLC

VARIABLES
    entries,      \* the host's config entries of this integration, in creation order
    flow,         \* the FlowResult of the latest async_step_user call
    agent,        \* the conversation entity built by async_setup_entry, or NoAgent
    pc,           \* position of the _async_handle_message coroutine
    user_input,   \* the ConversationInput of the call in progress
    chat_log,     \* assistant content added to the ChatLog by the call in progress
    posts,        \* the session.post requests issued by the call in progress
    timer,        \* seconds elapsed on the ClientTimeout of the request
    response,     \* status line and body the server has delivered so far
    bodyParsed,   \* TRUE once r.json() has been awaited on the response
    reply,        \* how _call_server ended: a _ServerReply or a raised exception
    raised,       \* the exception the except clause of the handler caught, or None
    result        \* the ConversationResult returned to the host, or NoResult

vars == <<entries, flow, agent, pc, user_input, chat_log, posts, timer,
          response, bodyParsed, reply, raised, result>>

flowVars == <<entries, flow>>
callVars == <<pc, user_input, chat_log, posts, timer, response, bodyParsed,
              reply, raised, result>>

\* ------------------------------------------------------------------ bounds
\* Longest string the server puts in a reply field.
MaxLen == 3

\* ------------------------------------------------------------- python values
None == "None"

Whitespace == {" ", "\t", "\n", "\r"}

IsSpace(c) == c \in Whitespace

RECURSIVE LStrip(_)
LStrip(s) ==
    IF s = <<>> THEN s
    ELSE IF IsSpace(Head(s)) THEN LStrip(Tail(s))
    ELSE s

RECURSIVE RStrip(_)
RStrip(s) ==
    IF s = <<>> THEN s
    ELSE IF IsSpace(s[Len(s)]) THEN RStrip(SubSeq(s, 1, Len(s) - 1))
    ELSE s

\* str.strip()
Strip(s) == RStrip(LStrip(s))

\* str.rstrip("/")
RECURSIVE RStripSlash(_)
RStripSlash(s) ==
    IF s = <<>> THEN s
    ELSE IF s[Len(s)] = "/" THEN RStripSlash(SubSeq(s, 1, Len(s) - 1))
    ELSE s

\* ---------------------------------------------------------------- const.py
\* DOMAIN (a reserved word of TLA+)
Domain == "jarvis_server"

\* ------------------------------------------------------------ config_flow.py
DefaultName == "External Agent"

\* Base URLs a user may type into the form.
BaseUrls == {<<"h">>, <<"h", "/">>, <<"h", "/", "/">>}

\* API keys a user may type into the form; the schema's default is "".
ApiKeys == {"", "k"}

FormInputs == [name : {DefaultName}, base_url : BaseUrls, api_key : ApiKeys]

\* FlowResult: its type and, for a created entry, the entry's data.
FlowResult(type, data) == [type |-> type, data |-> data]

NoFlow == FlowResult("none", None)

\* _abort_if_unique_id_configured: an entry with the flow's unique id exists.
UniqueIdNeverConfigured(es, unique_id) == FALSE

UniqueIdConfigured(es, unique_id) ==
    \E i \in 1..Len(es) : es[i].unique_id = unique_id

\* async_create_entry(title=user_input[CONF_NAME], data=user_input)
CreateEntry(data, unique_id) ==
    [unique_id |-> unique_id, title |-> data.name, data |-> data]

\* async_step_user(None): show the form.
StepUserShowForm ==
    /\ flow' = FlowResult("form", None)
    /\ UNCHANGED <<entries, agent>>
    /\ UNCHANGED callVars

\* async_step_user(user_input): strip the URL, set the unique id, abort when
\* it is configured, otherwise create the entry.
StepUserSubmit ==
    \E input \in FormInputs :
        LET data == [input EXCEPT !.base_url = RStripSlash(input.base_url)]
        IN  /\ IF UniqueIdConfigured(entries, Domain)
               THEN /\ flow' = FlowResult("abort", None)
                    /\ entries' = entries
               ELSE /\ flow' = FlowResult("create_entry", data)
                    /\ entries' = Append(entries, CreateEntry(data, Domain))
            /\ UNCHANGED agent
            /\ UNCHANGED callVars

\* ----------------------------------------------------------- conversation.py
NoAgent == [server_url |-> <<>>, entry |-> None]

\* async_setup_entry / JarvisServerConversationAgent.__init__
NewAgent(entry) ==
    [server_url |-> RStripSlash(entry.data.base_url), entry |-> entry]

AsyncSetupEntry ==
    /\ agent = NoAgent
    /\ Len(entries) >= 1
    /\ agent' = NewAgent(entries[1])
    /\ UNCHANGED flowVars
    /\ UNCHANGED callVars

\* ClientTimeout(total=15), in seconds.
ClientTimeoutTotal == 15

TimedOutNever(t) == FALSE

\* The total timeout has run out.
TimedOut(t) == t >= ClientTimeoutTotal

ConversePath ==
    <<"/", "c", "o", "n", "v", "e", "r", "s", "e">>

FallbackText ==
    <<"O", "k", ",", " ", "J", "a", "r", "v", "i", "s", " ", "w", "i", "l", "l",
      " ", "h", "e", "l", "p">>

ErrorPrefix ==
    <<"C", "o", "u", "l", "d", " ", "n", "o", "t", " ", "r", "e", "a", "c", "h",
      " ", "t", "h", "e", " ", "s", "e", "r", "v", "e", "r", " ", "(">>

ErrorSuffix ==
    <<")", ".">>

\* type(e).__name__
TypeName(e) ==
    CASE e = "ClientConnectorError" ->
            <<"C", "l", "i", "e", "n", "t", "C", "o", "n", "n", "e", "c", "t",
              "o", "r", "E", "r", "r", "o", "r">>
      [] e = "TimeoutError" ->
            <<"T", "i", "m", "e", "o", "u", "t", "E", "r", "r", "o", "r">>
      [] e = "ClientResponseError" ->
            <<"C", "l", "i", "e", "n", "t", "R", "e", "s", "p", "o", "n", "s",
              "e", "E", "r", "r", "o", "r">>
      [] e = "ContentTypeError" ->
            <<"C", "o", "n", "t", "e", "n", "t", "T", "y", "p", "e", "E", "r",
              "r", "o", "r">>
      [] e = "JSONDecodeError" ->
            <<"J", "S", "O", "N", "D", "e", "c", "o", "d", "e", "E", "r", "r",
              "o", "r">>
      [] e = "AttributeError" ->
            <<"A", "t", "t", "r", "i", "b", "u", "t", "e", "E", "r", "r", "o",
              "r">>
      [] e = "RuntimeError" ->
            <<"R", "u", "n", "t", "i", "m", "e", "E", "r", "r", "o", "r">>

\* f"Could not reach the server ({type(e).__name__})."
ErrorMessage(e) == ErrorPrefix \o TypeName(e) \o ErrorSuffix

\* --- what the host hands to the agent
Utterances == {<<"h", "i">>}
Languages == {"en"}
AgentIds == {"conversation.jarvis_server"}
ConversationIds == {None, "c1"}

ConversationInputs ==
    [text : Utterances, language : Languages,
     conversation_id : ConversationIds, agent_id : AgentIds]

NoInput ==
    [text |-> <<>>, language |-> None, conversation_id |-> None,
     agent_id |-> None]

\* --- what the server may answer
\* Status codes of the final response (aiohttp has followed redirects).
Statuses == {200, 300, 404, 500}

Alphabet == {"a", " "}

RECURSIVE StringsOfLen(_)
StringsOfLen(n) ==
    IF n = 0 THEN {<<>>}
    ELSE {Append(s, c) : s \in StringsOfLen(n - 1), c \in Alphabet}

Strings == UNION {StringsOfLen(n) : n \in 0..MaxLen}

\* JSON values of a field of the reply object: a missing key, null, a
\* number (0 is falsy, 5 is truthy) or a string.
Absent == [t |-> "absent", n |-> 0, s |-> <<>>]
JNull == [t |-> "null", n |-> 0, s |-> <<>>]
JNum(k) == [t |-> "num", n |-> k, s |-> <<>>]
JStr(x) == [t |-> "str", n |-> 0, s |-> x]

FieldValues == {Absent, JNull, JNum(0), JNum(5)} \cup {JStr(x) : x \in Strings}

\* Response bodies: one that is not served as JSON, one that is not
\* well-formed JSON, JSON that is no object, and JSON objects.
NoObject == [kind |-> "none", text |-> Absent, response |-> Absent]

Bodies ==
    {[kind |-> k, text |-> Absent, response |-> Absent] :
        k \in {"not_json_type", "malformed", "json_null", "json_array",
               "json_number"}}
    \cup [kind : {"object"}, text : FieldValues, response : FieldValues]

NoResponse == [status |-> 0, body |-> NoObject]

\* ClientResponse.raise_for_status raises ClientResponseError when the
\* status is 400 or higher.
RaiseForStatusNever(status) == FALSE

RaiseForStatus(status) == status >= 400

\* bool(v) of a value returned by dict.get
Truthy(v) ==
    CASE v.t = "str" -> v.s # <<>>
      [] v.t = "num" -> v.n # 0
      [] OTHER -> FALSE

\* data.get("text") or data.get("response") or ""
SelectReply(data) ==
    IF Truthy(data.text) THEN data.text
    ELSE IF Truthy(data.response) THEN data.response
    ELSE JStr(<<>>)

\* The text lines 116-118 give for a stripped string: the fallback replaces
\* an empty one.
OrFallbackNever(text) == text

OrFallback(text) == IF text = <<>> THEN FallbackText ELSE text

NoReply == [kind |-> "none", text |-> <<>>, exc |-> None]
Raise(e) == [kind |-> "raise", text |-> <<>>, exc |-> e]
ServerReply(text) == [kind |-> "reply", text |-> text, exc |-> None]

\* _call_server from `data = await r.json()` to its return: r.json() raises
\* on a body that is not JSON, data.get raises on JSON that is no object,
\* .strip() raises on a selected value that is no string.
CallServerBody(body) ==
    CASE body.kind = "not_json_type" -> Raise("ContentTypeError")
      [] body.kind = "malformed" -> Raise("JSONDecodeError")
      [] body.kind \in {"json_null", "json_array", "json_number"} ->
            Raise("AttributeError")
      [] OTHER ->
            LET v == SelectReply(body)
            IN  IF v.t # "str" THEN Raise("AttributeError")
                ELSE ServerReply(OrFallback(Strip(v.s)))

AssistantContent(agent_id, content) ==
    [agent_id |-> agent_id, content |-> content]

IntentResponse(language, speech) == [language |-> language, speech |-> speech]

NoResult ==
    [conversation_id |-> None, response |-> IntentResponse(None, <<>>),
     continue_conversation |-> FALSE, returned |-> FALSE]

ConversationResult(conversation_id, resp) ==
    [conversation_id |-> conversation_id, response |-> resp,
     continue_conversation |-> FALSE, returned |-> TRUE]

\* _error_result: append the message, answer with it.
ErrorResultNoId(ui, log, message) ==
    [chat_log |-> Append(log, AssistantContent(ui.agent_id, message)),
     result |-> ConversationResult(None, IntentResponse(ui.language, message)),
     raised |-> None]

ErrorResult(ui, log, message) ==
    [chat_log |-> Append(log, AssistantContent(ui.agent_id, message)),
     result |-> ConversationResult(ui.conversation_id,
                                   IntentResponse(ui.language, message)),
     raised |-> None]

\* The except clause of _async_handle_message.
Except(ui, log, e) ==
    [ErrorResult(ui, log, ErrorMessage(e)) EXCEPT !.raised = e]

\* Points of the try block, after _call_server has returned, at which a call
\* into the host may raise: the append to the chat log, the construction of
\* the IntentResponse, the construction of the ConversationResult.
HostFaults == {"none", "append", "response", "result"}

\* Lines 72-93 of _async_handle_message, for a reply of _call_server and a
\* host call that raises (or none).
HandleReply(ui, log, r, fault) ==
    IF r.kind = "raise" THEN Except(ui, log, r.exc)
    ELSE IF fault = "append" THEN Except(ui, log, "RuntimeError")
    ELSE LET appended == Append(log, AssistantContent(ui.agent_id, r.text))
         IN  IF fault \in {"response", "result"}
             THEN Except(ui, appended, "RuntimeError")
             ELSE [chat_log |-> appended,
                   result |-> ConversationResult(
                                  ui.conversation_id,
                                  IntentResponse(ui.language, r.text)),
                   raised |-> None]

\* The request of _call_server: url, JSON payload, headers, timeout.
Request(a, ui) ==
    [url |-> a.server_url \o ConversePath,
     json |-> [text |-> ui.text, language |-> ui.language,
               conversation_id |-> ui.conversation_id,
               agent_id |-> ui.agent_id],
     headers |-> {},
     timeout |-> ClientTimeoutTotal]

\* session.post(...)
SessionPostTwice(ps, req) == Append(Append(ps, req), req)

SessionPost(ps, req) == Append(ps, req)

\* The host calls _async_handle_message; the coroutine runs to the await of
\* the POST.
AsyncHandleMessage ==
    /\ pc = "idle"
    /\ agent # NoAgent
    /\ \E ui \in ConversationInputs :
        /\ user_input' = ui
        /\ posts' = SessionPost(<<>>, Request(agent, ui))
    /\ pc' = "await_response"
    /\ chat_log' = <<>>
    /\ timer' = 0
    /\ response' = NoResponse
    /\ bodyParsed' = FALSE
    /\ reply' = NoReply
    /\ raised' = None
    /\ result' = NoResult
    /\ UNCHANGED <<entries, flow, agent>>

\* The handler ends: the request is over (its timer is cancelled), and the
\* outcome of lines 72-93 is stored and returned.
Finish(r, fault) ==
    LET out == HandleReply(user_input, chat_log, r, fault)
    IN  /\ timer' = 0
        /\ reply' = r
        /\ chat_log' = out.chat_log
        /\ result' = out.result
        /\ raised' = out.raised
        /\ pc' = "done"

\* The connection cannot be made or breaks before the status line arrives.
ConnectionFails ==
    /\ pc = "await_response"
    /\ Finish(Raise("ClientConnectorError"), "none")
    /\ UNCHANGED <<entries, flow, agent, user_input, posts, response,
                   bodyParsed>>

\* The status line and headers arrive; r.raise_for_status() runs.
ResponseArrives ==
    /\ pc = "await_response"
    /\ \E status \in Statuses :
        /\ response' = [status |-> status, body |-> NoObject]
        /\ IF RaiseForStatus(status)
           THEN Finish(Raise("ClientResponseError"), "none")
           ELSE /\ pc' = "await_json"
                /\ UNCHANGED <<chat_log, timer, reply, raised, result>>
    /\ UNCHANGED <<entries, flow, agent, user_input, posts, bodyParsed>>

\* The body arrives; r.json() returns or raises, and the handler runs to its
\* return.
BodyArrives ==
    /\ pc = "await_json"
    /\ \E body \in Bodies, fault \in HostFaults :
        /\ response' = [response EXCEPT !.body = body]
        /\ Finish(CallServerBody(body), fault)
    /\ bodyParsed' = TRUE
    /\ UNCHANGED <<entries, flow, agent, user_input, posts>>

\* A second passes while the request is awaited.
Tick ==
    /\ pc \in {"await_response", "await_json"}
    /\ timer < ClientTimeoutTotal
    /\ ~TimedOut(timer)
    /\ timer' = timer + 1
    /\ UNCHANGED <<entries, flow, agent, pc, user_input, chat_log, posts,
                   response, bodyParsed, reply, raised, result>>

\* The total timeout runs out: the awaited call raises TimeoutError.
TimeoutFires ==
    /\ pc \in {"await_response", "await_json"}
    /\ TimedOut(timer)
    /\ Finish(Raise("TimeoutError"), "none")
    /\ UNCHANGED <<entries, flow, agent, user_input, posts, response,
                   bodyParsed>>

\* The host takes the returned ConversationResult.
ReturnToHost ==
    /\ pc = "done"
    /\ pc' = "idle"
    /\ user_input' = NoInput
    /\ chat_log' = <<>>
    /\ posts' = <<>>
    /\ timer' = 0
    /\ response' = NoResponse
    /\ bodyParsed' = FALSE
    /\ reply' = NoReply
    /\ raised' = None
    /\ result' = NoResult
    /\ UNCHANGED <<entries, flow, agent>>

Init ==
    /\ entries = <<>>
    /\ flow = NoFlow
    /\ agent = NoAgent
    /\ pc = "idle"
    /\ user_input = NoInput
    /\ chat_log = <<>>
    /\ posts = <<>>
    /\ timer = 0
    /\ response = NoResponse
    /\ bodyParsed = FALSE
    /\ reply = NoReply
    /\ raised = None
    /\ result = NoResult

Next ==
    \/ StepUserShowForm
    \/ StepUserSubmit
    \/ AsyncSetupEntry
    \/ AsyncHandleMessage
    \/ ConnectionFails
    \/ ResponseArrives
    \/ BodyArrives
    \/ Tick
    \/ TimeoutFires
    \/ ReturnToHost

Spec == Init /\ [][Next]_vars

\* The event loop keeps its clock running and fires the timeout it armed;
\* nothing is assumed of the server.
LiveSpec == Spec /\ WF_vars(Tick) /\ WF_vars(TimeoutFires)

\* ------------------------------------------------------------- properties
Speech == result.response.speech

Awaiting == pc \in {"await_response", "await_json"}

Exceptions ==
    {"ClientConnectorError", "TimeoutError", "ClientResponseError",
     "ContentTypeError", "JSONDecodeError", "AttributeError", "RuntimeError"}

Is2xx(status) == status >= 200 /\ status <= 299

\* s holds a character that is not whitespace.
NonBlank(s) == \E i \in 1..Len(s) : s[i] \notin Whitespace

\* t is s without the whitespace around it.
IsTrimOf(t, s) ==
    \E i \in 0..Len(s) :
        /\ i + Len(t) <= Len(s)
        /\ SubSeq(s, i + 1, i + Len(t)) = t
        /\ \A k \in 1..i : s[k] \in Whitespace
        /\ \A k \in (i + Len(t) + 1)..Len(s) : s[k] \in Whitespace
        /\ t # <<>> => t[1] \notin Whitespace /\ t[Len(t)] \notin Whitespace

\* A field of the reply object holds a string that is not blank.
NonBlankString(v) == v.t = "str" /\ NonBlank(v.s)

\* The header that carries key as a bearer token.
BearerHeader(key) == <<"Authorization", "Bearer", key>>

\* C1: after any sequence of async_step_user calls at most one config entry
\* exists; once an entry exists no step adds another and a submission
\* aborts; a call without user input shows the form and creates no entry.
C1_SingleInstance ==
    /\ [](Len(entries) <= 1)
    /\ [][/\ Len(entries) >= 1 => entries' = entries
          /\ (Len(entries) >= 1 /\ flow' # flow /\ flow'.type # "form")
                => flow'.type = "abort"
          /\ flow'.type = "form" => entries' = entries]_vars

C1_Witness == Len(entries) = 1 /\ flow.type = "abort"

\* C2 (as claimed): a finished call has returned a result; after every
\* failure of the server call (connection error, timeout, non-2xx status, a
\* body that is not JSON, JSON that is no object, a reply field that is no
\* string) the speech is the error string; after a non-2xx status the body
\* has not been parsed.
C2_ReplyFieldNotString ==
    /\ response.body.kind = "object"
    /\ \/ response.body.text.t \in {"null", "num"}
       \/ /\ response.body.text.t = "absent"
          /\ response.body.response.t \in {"null", "num"}

C2_ServerCallFailed ==
    \/ reply.exc \in {"ClientConnectorError", "TimeoutError"}
    \/ response.status # 0 /\ ~Is2xx(response.status)
    \/ response.body.kind \in {"not_json_type", "malformed", "json_null",
                               "json_array", "json_number"}
    \/ C2_ReplyFieldNotString

C2_FailuresGiveError ==
    pc = "done" =>
        /\ result.returned
        /\ C2_ServerCallFailed =>
              \E e \in Exceptions : Speech = ErrorMessage(e)
        /\ (response.status # 0 /\ ~Is2xx(response.status)) => ~bodyParsed

\* C3: every call of _async_handle_message issues exactly one POST, whatever
\* the outcome of that POST.
C3_ExactlyOnePost == pc # "idle" => Len(posts) = 1

C3_Witness ==
    pc = "done" /\ raised = "TimeoutError" /\ Len(posts) = 1

\* C4 (as claimed): after a 2xx response whose JSON object holds a reply that
\* is not blank, the text added to the chat log and the speech of the result
\* are the same string, and that string is the server's reply without the
\* whitespace around it.  Stated for the calls that return from the try
\* block, where nothing was raised.
C4_ReplyRelayed ==
    (/\ pc = "done"
     /\ raised = None
     /\ Is2xx(response.status)
     /\ response.body.kind = "object"
     /\ \/ NonBlankString(response.body.text)
        \/ NonBlankString(response.body.response))
    => /\ Len(chat_log) >= 1
       /\ \A i \in 1..Len(chat_log) : chat_log[i].content = Speech
       /\ \/ /\ NonBlankString(response.body.text)
             /\ IsTrimOf(Speech, response.body.text.s)
          \/ /\ NonBlankString(response.body.response)
             /\ IsTrimOf(Speech, response.body.response.s)

\* C5: on the success path and on the error path the conversation_id of the
\* returned result is the conversation_id of the input, None included, and
\* the request payload carries the same id.
C5_ConversationIdPassedThrough ==
    /\ pc # "idle" =>
          \A i \in 1..Len(posts) :
              posts[i].json.conversation_id = user_input.conversation_id
    /\ pc = "done" =>
          /\ result.returned
          /\ result.conversation_id = user_input.conversation_id

C5_Witness ==
    /\ pc = "done"
    /\ raised # None
    /\ user_input.conversation_id = "c1"
    /\ result.conversation_id = "c1"

\* C6 (as claimed): when the config entry holds a non-empty API key every
\* POST carries it as bearer authorization; when the key is empty no
\* authorization is sent.
C6_BearerToken ==
    \A i \in 1..Len(posts) :
        IF agent.entry.data.api_key # ""
        THEN BearerHeader(agent.entry.data.api_key) \in posts[i].headers
        ELSE posts[i].headers = {}

\* C7: every call of _async_handle_message eventually returns a result; a
\* server that never answers, or stalls while sending the body, leads to the
\* timeout and to the error result.
C7_EventuallyReturns ==
    /\ Awaiting ~> (pc = "done" /\ result.returned)
    /\ []((pc = "done" /\ raised = "TimeoutError")
            => Speech = ErrorMessage("TimeoutError"))

C7_Witness ==
    /\ pc = "done"
    /\ raised = "TimeoutError"
    /\ response.status = 200
    /\ ~bodyParsed

\* C8 (as claimed): for every JSON object, when "text" or "response" holds a
\* string that is not blank, _call_server returns such a string stripped,
\* "text" preferred; the fallback is returned only when neither does.
\* Stated for the calls in which _call_server returns a text.
C8_BothShapesAccepted ==
    (/\ pc = "done"
     /\ bodyParsed
     /\ response.body.kind = "object"
     /\ reply.kind = "reply") =>
        IF NonBlankString(response.body.text)
        THEN IsTrimOf(reply.text, response.body.text.s)
        ELSE IF NonBlankString(response.body.response)
        THEN IsTrimOf(reply.text, response.body.response.s)
        ELSE reply.text = FallbackText

\* C9 (as claimed): every call appends exactly one assistant message to the
\* chat log, also when a failure follows the append of the reply.
C9_OneAssistantMessage == pc = "done" => Len(chat_log) = 1

\* C10: the speech of every returned result holds a character that is not
\* whitespace, and continue_conversation is false.
C10_SpeechNeverBlank ==
    pc = "done" =>
        /\ result.returned
        /\ NonBlank(Speech)
        /\ result.continue_conversation = FALSE

C10_Witness ==
    /\ pc = "done"
    /\ raised = None
    /\ response.body.kind = "object"
    /\ response.body.text = JStr(<<" ">>)
    /\ response.body.response = Absent
    /\ Speech = FallbackText

====
